---------------------------- MODULE Spec2Model ----------------------------
(***************************************************************************)
(* A model of the stimulus pipeline of perception_action_MST:             *)
(*   - code/02_engineer_flags.py and code/03a_build_stimulus_set.py, the   *)
(*     single-item stimulus constructor (specification SpecStim);          *)
(*   - code/src/functions.py: build_pools, sample_row, make_trial called   *)
(*     directly (specification SpecTrial) and build_trials_flat            *)
(*     (specification SpecFlat).                                           *)
(* Every variable belongs to one of the three programs; a specification    *)
(* leaves the variables of the other programs at their idle values.        *)
(***************************************************************************)
EXTENDS Integers, Sequences, FiniteSets, TLC

VARIABLES
    \* ---- 02_engineer_flags / 03a_build_stimulus_set -------------------
    clean,            \* rows of off_dk_clean.csv (input of 02_engineer_flags)
    flags_csv,        \* off_flags_dk.csv: NoFile, or the rows 02 wrote
    target_total,     \* 03a line 11
    target_per_cell,  \* 03a line 62
    random_seed,      \* 03a line 12
    pc,               \* per run of 03a: the script's position
    df,               \* per run: the filtered frame with its cell column
    n_per_cell,       \* per run: 03a line 65
    rng,              \* per run: the state of np.random.default_rng(random_seed)
    stim,             \* per run: the sampled frame
    out_csv,          \* per run: stimulus_set.csv, NoFile until written
    \* ---- functions.py: build_pools / sample_row / make_trial ----------
    items,            \* the item frame: raw, then as prepare_items returns it
    pools_by_cat,     \* build_pools: category -> cell -> rows
    global_pools,     \* build_pools: cell -> rows
    mt_pc,            \* "raw", "items" (prepared), "pools" (built), "called"
    mt_args,          \* the arguments of the last make_trial call
    mt_result,        \* what that call returned: <<>> for None, else <<trial>>
    \* ---- functions.py: build_trials_flat ------------------------------
    bt_pc,            \* "start", "targets", "loop", "fill", "raised"
    n_trials,         \* argument
    max_repeats_per_name, \* argument
    cell_targets,     \* line 340
    cell_filled,      \* line 345
    name_counts,      \* line 346
    trials,           \* line 348
    bt_order,         \* line 349: rng.permutation(cells), its current row and
                      \* the rows not yet visited
    bt_error,         \* the exception that ended build_trials_flat, or "none"
    bt_calls,         \* history: per cell, for each slot the while loop of line
                      \* 351 has taken up, the make_trial calls made for it
    \* ---- functions.py: sample_row called on a pool of the caller ------
    sr_pc,            \* "ready", "called"
    sr_args,          \* the arguments of the call and the permutation drawn
    sr_result,        \* what the call returned: <<>> for None, else <<row>>
    \* ---- experiment_run_functions.py: build_blocks_from_items ---------
    bb_df,            \* argument df
    bb_n_blocks,      \* argument n_blocks
    bb_rng_seed,      \* argument rng_seed: <<>> for None, else <<seed>>
    np_global,        \* the state of NumPy's global generator in the process
    bb_pc,            \* per call: "ready", "returned"
    bb_out,           \* per call: the list of block frames returned
    \* ---- experiment_run_functions.py: run_experiment ------------------
    ex_pc,            \* "idle", "start", "consent", "instructions", "header",
                      \* "trial", "finish", "saved", "exit"
    ex_items,         \* items, as read from trials_csv
    ex_n_blocks,      \* argument n_blocks
    block_dfs,        \* line 339
    block_indices,    \* lines 340-341 (1-based here, 0-based in the code)
    progress_num,     \* line 354: position in the delivery order
    ex_row,           \* run_block: the row of the block on screen
    records,          \* run_block: the records of the block being run
    all_records,      \* line 345
    headers,          \* the block headers shown so far: <<number, of>>
    delivered,        \* the values block_i has taken so far
    consent,          \* info["consent"]
    saved             \* the files save_records has written: the records of each

stimVars  == <<clean, flags_csv, target_total, target_per_cell, random_seed,
               pc, df, n_per_cell, rng, stim, out_csv>>
trialVars == <<items, pools_by_cat, global_pools, mt_pc, mt_args, mt_result>>
flatVars  == <<bt_pc, n_trials, max_repeats_per_name, cell_targets, cell_filled, name_counts,
               trials, bt_order, bt_error, bt_calls>>
sampleVars == <<sr_pc, sr_args, sr_result>>
blockVars == <<bb_df, bb_n_blocks, bb_rng_seed, np_global, bb_pc, bb_out>>
runVars   == <<ex_pc, ex_items, ex_n_blocks, block_dfs, block_indices, progress_num,
               ex_row, records, all_records, headers, delivered, consent, saved>>
restVars  == <<sampleVars, blockVars, runVars>>
vars      == <<stimVars, trialVars, flatVars, restVars>>

(***************************************************************************)
(* Bounds of the model.                                                    *)
(***************************************************************************)
\* most rows of one kind in the scaled-down input files
MaxAvail == 3
\* largest scaled-down target_per_cell
MaxTargetPerCell == 1

NA     == "<NA>"
NoFile == [written |-> FALSE, rows |-> <<>>]
NoId   == 0
Runs   == {1, 2}

Min(a, b) == IF a < b THEN a ELSE b

RECURSIVE SeqSum(_)
SeqSum(s) == IF s = <<>> THEN 0 ELSE Head(s) + SeqSum(Tail(s))

(***************************************************************************)
(* The random generators.  NumPy's bit generators are deterministic        *)
(* functions of their seed; the model keeps exactly that: a generator is   *)
(* a state, seeding fixes the state, every draw advances it.  The stream   *)
(* itself is a 15-bit linear congruential one.                             *)
(***************************************************************************)
RngModulus    == 32768
RngMultiplier == 25173
RngIncrement  == 13849

default_rng(seed) == seed % RngModulus

RngStep(s) == (s * RngMultiplier + RngIncrement) % RngModulus

RECURSIVE RngJump(_)
\* k steps at once: RngStep^k(s) = (A * s + C) % RngModulus (by halving k, so
\* that long shuffles do not nest deeply)
RngJump(k) ==
    IF k = 0 THEN [A |-> 1, C |-> 0]
    ELSE IF k % 2 = 0
         THEN LET h == RngJump(k \div 2)
              IN  [A |-> (h.A * h.A) % RngModulus,
                   C |-> (h.A * h.C + h.C) % RngModulus]
         ELSE LET q == RngJump(k - 1)
              IN  [A |-> (RngMultiplier * q.A) % RngModulus,
                   C |-> (RngMultiplier * q.C + RngIncrement) % RngModulus]

\* the state of generator g after k draws
RngAfter(g, k) == LET j == RngJump(k) IN (j.A * g + j.C) % RngModulus

\* an integer of 0..n-1 drawn from state s
RngBelow(s, n) == (s \div 128) % n

RECURSIVE Gather(_, _, _, _)
\* Generator.shuffle on n elements is n-1 swaps: swap t exchanges position
\* i = n-t+1 with a drawn position j <= i.  Gather(n, g, lo, hi) is the
\* effect of swaps lo..hi as a map from final position to position before
\* swap lo (swaps lo..mid first, then mid+1..hi).
Gather(n, g, lo, hi) ==
    IF lo = hi
    THEN LET i == n - lo + 1
             j == RngBelow(RngAfter(g, lo), i) + 1
         IN  [k \in 1..n |-> IF k = i THEN j ELSE IF k = j THEN i ELSE k]
    ELSE LET mid    == (lo + hi) \div 2
             first  == Gather(n, g, lo, mid)
             second == Gather(n, g, mid + 1, hi)
         IN  [k \in 1..n |-> first[second[k]]]

\* Generator.shuffle / permutation: the shuffled sequence and the generator
\* state it leaves
shuffle(s, g) ==
    LET n == Len(s)
    IN  IF n <= 1 THEN [perm |-> s, state |-> g]
        ELSE LET p == Gather(n, g, 1, n - 1)
             IN  [perm |-> [k \in 1..n |-> s[p[k]]], state |-> RngAfter(g, n - 1)]

(***************************************************************************)
(* functions.py helpers used by 02_engineer_flags.py.  Strings are atoms   *)
(* in TLA+, so str.strip / str.lower / str.upper are tables over the       *)
(* vocabulary of the modelled files.                                       *)
(***************************************************************************)
StrStrip(s) == IF s = " e " THEN "e" ELSE s

StrLower(s) ==
    CASE s = "A" -> "a" [] s = "B" -> "b" [] s = "C" -> "c"
      [] s = "D" -> "d" [] s = "E" -> "e" [] s = "X" -> "x"
      [] OTHER -> s

StrUpper(s) ==
    CASE s = "a" -> "A" [] s = "b" -> "B" [] s = "c" -> "C"
      [] s = "d" -> "D" [] s = "e" -> "E" [] s = "x" -> "X"
      [] s = "a-plus" -> "A-PLUS" [] s = "unknown" -> "UNKNOWN"
      [] s = "not-applicable" -> "NOT-APPLICABLE" [] s = "nan" -> "NAN"
      [] OTHER -> s

\* _norm_str: strip, and the literal "nan" (a missing CSV cell) becomes ""
_norm_str(s) ==
    LET t == StrStrip(s) IN IF StrLower(t) = "nan" THEN "" ELSE t

_as_lower(s) == StrLower(_norm_str(s))

\* lines 48-55: eco.replace({...})
EcoReplace(s) ==
    CASE s = ""               -> NA
      [] s = "unknown"        -> NA
      [] s = "not-applicable" -> NA
      [] s = "a-plus"         -> "a"
      [] OTHER                -> s

\* lines 28-59 for one row: the grade columns to a letter A-E or NA
EcoFromGrades(row) ==
    LET eco_a == StrStrip(_norm_str(row.ecoscore_grade))
        eco_b == StrStrip(_norm_str(row.environmental_score_grade))
        eco   == IF eco_a # "" THEN eco_a ELSE eco_b
        rep   == EcoReplace(StrLower(eco))
        up    == IF rep = NA THEN NA ELSE StrUpper(rep)
    IN  IF up \in {"A", "B", "C", "D", "E"} THEN up ELSE NA

\* lines 63-66: pd.cut(sc, bins=[-1000,19,39,59,79,1000], labels=E..A);
\* a score is <<>> (not numeric) or <<v>>
EcoFromScore(sc) ==
    IF sc = <<>> THEN NA
    ELSE LET v == sc[1] IN
         CASE -1000 < v /\ v <= 19   -> "E"
           [] 19 < v    /\ v <= 39   -> "D"
           [] 39 < v    /\ v <= 59   -> "C"
           [] 59 < v    /\ v <= 79   -> "B"
           [] 79 < v    /\ v <= 1000 -> "A"
           [] OTHER                  -> NA

\* _derive_eco_score over the whole frame: the numeric backup is used only
\* when no row at all has a usable grade
_derive_eco_score(frame) ==
    LET eco == [i \in 1..Len(frame) |-> EcoFromGrades(frame[i])]
    IN  IF \A i \in 1..Len(frame) : eco[i] = NA
        THEN [i \in 1..Len(frame) |-> EcoFromScore(frame[i].ecoscore_score)]
        ELSE eco

\* the mutant of derive_eco_signal: grade C counted as a good grade
derive_eco_signal_ABC(eco_score) ==
    IF StrUpper(StrStrip(eco_score)) \in {"A", "B", "C"} THEN 1 ELSE 0

\* derive_eco_signal for one row: eco.str.strip().str.upper().isin(["A","B"])
derive_eco_signal(eco_score) ==
    IF StrUpper(StrStrip(eco_score)) \in {"A", "B"} THEN 1 ELSE 0

\* _ORG_REGEX on the label strings of the modelled files: a whole token
\* organic / oekologisk / bio, with or without its language prefix
OrgRegexMatches(lab) ==
    lab \in {"en:organic", "da:oekologisk,en:vegan", "en:vegan,fr:bio"}

derive_organic_label(labels_tags) ==
    IF OrgRegexMatches(StrLower(labels_tags)) THEN 1 ELSE 0

\* 02_engineer_flags.py lines 55-66 with languages_tags and the Danish name
\* column empty: the language code decides
lang_da_of(row) == IF _as_lower(row.lc) = "da" THEN 1 ELSE 0

\* 02_engineer_flags.py, lines 30-114: the frame to_csv writes
EngineerFlagsFrame(frame) ==
    LET eco == _derive_eco_score(frame)
        all == [i \in 1..Len(frame) |->
                  [product_name  |-> frame[i].product_name,
                   eco_score     |-> eco[i],
                   eco_signal    |-> derive_eco_signal(eco[i]),
                   organic_badge |-> derive_organic_label(_as_lower(frame[i].labels_tags)),
                   lang_da       |-> lang_da_of(frame[i])]]
    IN  all

\* DataFrame.to_csv / pd.read_csv on one cell: NA is written as the empty
\* field, an integer as its digits; the empty field is read back as NaN
CsvRowText(row) ==
    [product_name  |-> row.product_name,
     eco_score     |-> IF row.eco_score = NA THEN "" ELSE row.eco_score,
     eco_signal    |-> IF row.eco_signal = 1 THEN "1" ELSE "0",
     organic_badge |-> IF row.organic_badge = 1 THEN "1" ELSE "0",
     lang_da       |-> IF row.lang_da = 1 THEN "1" ELSE "0"]

CsvInt(t) == IF t = "1" THEN 1 ELSE 0

CsvRowParse(text) ==
    [product_name  |-> text.product_name,
     eco_score     |-> IF text.eco_score = "" THEN NA ELSE text.eco_score,
     eco_signal    |-> CsvInt(text.eco_signal),
     organic_badge |-> CsvInt(text.organic_badge),
     lang_da       |-> CsvInt(text.lang_da)]

to_csv(frame)  == [written |-> TRUE, rows |-> [i \in 1..Len(frame) |-> CsvRowText(frame[i])]]
read_csv(file) == [i \in 1..Len(file.rows) |-> CsvRowParse(file.rows[i])]

(***************************************************************************)
(* The input of the pipeline: off_dk_clean.csv.  A file holds, for each    *)
(* kind of product, the first counts[kind] products of that kind; the      *)
(* k-th product of a kind varies the spelling of its grade and labels.     *)
(*   1 conventional, poor grade     2 conventional, good grade             *)
(*   3 organic, poor grade          4 organic, good grade                  *)
(*   5 no usable grade              6 not Danish                           *)
(***************************************************************************)
RawKinds == 1..6

RawRow(kind, k) ==
    LET v == k % 3
        grades ==
          CASE kind = 1 -> (IF v = 1 THEN <<"c", "nan">> ELSE IF v = 2 THEN <<"D", "nan">> ELSE <<"nan", " e ">>)
            [] kind = 2 -> (IF v = 1 THEN <<"a", "nan">> ELSE IF v = 2 THEN <<"B", "c">> ELSE <<"nan", "a-plus">>)
            [] kind = 3 -> (IF v = 1 THEN <<"d", "nan">> ELSE IF v = 2 THEN <<"E", "a">> ELSE <<"c", "nan">>)
            [] kind = 4 -> (IF v = 1 THEN <<"A", "nan">> ELSE IF v = 2 THEN <<"b", "nan">> ELSE <<"a-plus", "nan">>)
            [] kind = 5 -> (IF v = 1 THEN <<"unknown", "a">> ELSE IF v = 2 THEN <<"not-applicable", "nan">> ELSE <<"x", "nan">>)
            [] OTHER    -> <<"a", "nan">>
        labels ==
          CASE kind \in {1, 2} -> (IF v = 1 THEN "nan" ELSE IF v = 2 THEN "en:vegan" ELSE "en:eu-organic")
            [] kind \in {3, 4} -> (IF v = 1 THEN "en:organic" ELSE IF v = 2 THEN "da:oekologisk,en:vegan" ELSE "en:vegan,fr:bio")
            [] kind = 5        -> (IF v = 1 THEN "en:organic" ELSE "nan")
            [] OTHER           -> "en:organic"
    IN  [product_name              |-> <<"off", kind, k>>,
         labels_tags               |-> labels,
         lc                        |-> IF kind = 6 THEN "en" ELSE "da",
         ecoscore_grade            |-> grades[1],
         environmental_score_grade |-> grades[2],
         ecoscore_score            |-> IF kind = 5 THEN (IF v = 1 THEN <<85>> ELSE IF v = 2 THEN <<>> ELSE <<30>>)
                                       ELSE <<50>>]

RECURSIVE CleanFile(_, _)
\* the rows of the file for counts, kinds kind..6
CleanFile(counts, kind) ==
    IF kind > 6 THEN <<>>
    ELSE [k \in 1..counts[kind] |-> RawRow(kind, k)] \o CleanFile(counts, kind + 1)

\* scaled-down files: up to MaxAvail products of each classified kind, at
\* most one ungraded and one non-Danish product
SmallCounts ==
    {c \in [RawKinds -> 0..MaxAvail] : c[5] <= 1 /\ c[6] <= 1}

\* the seeds the scaled-down runs use (637 is the repository's)
SeedValues == {637, 638}

\* A configuration is the three constants of 03a_build_stimulus_set.py and
\* the input file.  The scaled-down ones keep target_total = 4 * n_per_cell;
\* the last two are at the repository's scale: its own constants
\* (target_total 240, target_per_cell 20) on 60 items per cell, and a
\* request of 60 per cell on a file whose smallest cell holds 50.
StimConfigs ==
    { [target_total |-> 8 * t, target_per_cell |-> t, random_seed |-> sd, counts |-> c] :
        t \in 1..MaxTargetPerCell, sd \in SeedValues, c \in SmallCounts }
    \cup
    { [target_total |-> 240, target_per_cell |-> 20, random_seed |-> 637,
       counts |-> [k \in RawKinds |-> IF k <= 4 THEN 60 ELSE 1]],
      [target_total |-> 240, target_per_cell |-> 30, random_seed |-> 637,
       counts |-> [k \in RawKinds |-> IF k = 3 THEN 50 ELSE IF k <= 4 THEN 60 ELSE 0]] }

(***************************************************************************)
(* 03a_build_stimulus_set.py                                               *)
(***************************************************************************)
\* line 54
all_cells == << <<0, 0>>, <<0, 1>>, <<1, 0>>, <<1, 1>> >>

\* lines 32-46: the two filters and the cell column
LoadAndFilter(file) ==
    LET rows == read_csv(file)
        danish(r) == r.lang_da = 1
        graded(r) == r.eco_score # NA
        kept == SelectSeq(SelectSeq(rows, danish), graded)
    IN  [i \in 1..Len(kept) |->
           [product_name  |-> kept[i].product_name,
            eco_score     |-> kept[i].eco_score,
            eco_signal    |-> kept[i].eco_signal,
            organic_badge |-> kept[i].organic_badge,
            lang_da       |-> kept[i].lang_da,
            cell          |-> <<kept[i].organic_badge, kept[i].eco_signal>>]]

\* lines 48, 55: cell_counts.get(c, 0) for the 4 cells
available_per_cell(frame) ==
    [ci \in 1..4 |-> Cardinality({i \in 1..Len(frame) : frame[i].cell = all_cells[ci]})]

\* line 67
max_balanced_per_cell(avail) ==
    Min(Min(avail[1], avail[2]), Min(avail[3], avail[4]))

\* the mutant of CheckBalance: the count is shrunk to the smallest cell
\* instead of aborting
CheckBalance_shrink(tpc, avail) ==
    [abort      |-> FALSE,
     n_per_cell |-> Min(tpc * 2, max_balanced_per_cell(avail))]

\* lines 62-73: the requested per-cell count, and whether SystemExit is raised
CheckBalance(tpc, avail) ==
    [abort      |-> tpc * 2 > max_balanced_per_cell(avail),
     n_per_cell |-> tpc * 2]

\* the mutant of CellRows: the mask tests organic_badge only
CellRows_badgeOnly(frame, cell) ==
    LET in_cell(r) == r.organic_badge = cell[1] IN SelectSeq(frame, in_cell)

\* line 85: sub = df[df["cell"] == cell]
CellRows(frame, cell) ==
    LET in_cell(r) == r.cell = cell IN SelectSeq(frame, in_cell)

\* The salt CPython draws per process for str and bytes hashes.
ProcessSalt(r) == r

\* the mutant of hash_cell: a hash that uses the process's salt, as the hash
\* of a key holding a str does
hash_cell_salted(cell, salt) == (cell[1] * 2 + cell[2] + 1) * 7919 * salt

\* line 97: hash(cell) % 2**32 of a tuple of two ints, which CPython computes
\* from the ints alone; the values are those of 64-bit CPython 3.8+,
\* reduced modulo RngModulus (all the seeding keeps of them)
hash_cell(cell, salt) ==
    CASE cell = <<0, 0>> -> 12391
      [] cell = <<0, 1>> -> 6080
      [] cell = <<1, 0>> -> 6936
      [] cell = <<1, 1>> -> 14314

\* lines 98-101: sub.sample(n=take, random_state=seed): the first take rows
\* of a permutation drawn from a generator seeded with seed
sample(sub, take, seed) ==
    LET p == shuffle([i \in 1..Len(sub) |-> i], default_rng(seed)).perm
    IN  [k \in 1..take |-> sub[p[k]]]

\* lines 84-102, one iteration: the rows sampled from one cell
SampleCell(frame, cell, n, seed, salt) ==
    LET sub  == CellRows(frame, cell)
        take == IF Len(sub) < n THEN Len(sub) ELSE n
    IN  sample(sub, take, seed + hash_cell(cell, salt))

\* lines 84-111: the concatenated samples, salience column "" (no item_id yet)
SampleAll(frame, n, seed, salt) ==
    LET got == SampleCell(frame, all_cells[1], n, seed, salt)
               \o SampleCell(frame, all_cells[2], n, seed, salt)
               \o SampleCell(frame, all_cells[3], n, seed, salt)
               \o SampleCell(frame, all_cells[4], n, seed, salt)
    IN  [i \in 1..Len(got) |->
           [product_name  |-> got[i].product_name,
            eco_score     |-> got[i].eco_score,
            eco_signal    |-> got[i].eco_signal,
            organic_badge |-> got[i].organic_badge,
            lang_da       |-> got[i].lang_da,
            cell          |-> got[i].cell,
            salience      |-> "",
            item_id       |-> NoId]]

\* line 114: stim.index[stim["cell"] == cell]
CellIdx(st, cell) ==
    LET in_cell(i) == st[i].cell = cell
    IN  SelectSeq([i \in 1..Len(st) |-> i], in_cell)

InSeq(x, s) == \E i \in 1..Len(s) : s[i] = x

\* line 123
low_idx(idx, half) == SubSeq(idx, 1, half)

\* the mutant of high_idx: the slice starts one row late
high_idx_late(idx, half) == SubSeq(idx, half + 2, Len(idx))

\* line 124
high_idx(idx, half) == SubSeq(idx, half + 1, Len(idx))

RECURSIVE SalienceLoop(_, _, _)
\* lines 113-127: the cells ci..4; the generator is threaded through
SalienceLoop(st, g, ci) ==
    IF ci > 4 THEN [stim |-> st, rng |-> g]
    ELSE LET idx == CellIdx(st, all_cells[ci])
             n   == Len(idx)
         IN  IF n = 0 THEN SalienceLoop(st, g, ci + 1)
             ELSE LET sh   == shuffle(idx, g)
                      half == n \div 2
                      lo   == low_idx(sh.perm, half)
                      hi   == high_idx(sh.perm, half)
                      st2  == [i \in 1..Len(st) |->
                                 IF InSeq(i, hi) THEN [st[i] EXCEPT !.salience = "high"]
                                 ELSE IF InSeq(i, lo) THEN [st[i] EXCEPT !.salience = "low"]
                                 ELSE st[i]]
                  IN  SalienceLoop(st2, sh.state, ci + 1)

\* lines 130-133: rows still without salience are filled with "low"
FillEmptySalience(st) ==
    [i \in 1..Len(st) |->
       IF st[i].salience = "" THEN [st[i] EXCEPT !.salience = "low"] ELSE st[i]]

\* line 138: stim.sample(frac=1.0, random_state=random_seed).reset_index()
ShuffleRows(st, seed) == sample(st, Len(st), seed)

\* line 139: item_id = np.arange(1, len(stim) + 1)
AssignIds(st) == [i \in 1..Len(st) |-> [st[i] EXCEPT !.item_id = i]]

\* the mutant of ShuffleAndId: the ids are given before the rows are shuffled
ShuffleAndId_idsFirst(st, seed) == ShuffleRows(AssignIds(st), seed)

\* lines 138-139
ShuffleAndId(st, seed) == AssignIds(ShuffleRows(st, seed))

\* lines 166-180: the keys of name_overrides_by_item_id
OverrideIds == {20, 22, 47, 54, 61, 68, 76, 78, 105, 120, 150}

\* lines 144-185: the columns written, with the product names overridden
StimOut(st) ==
    [i \in 1..Len(st) |->
       [item_id       |-> st[i].item_id,
        product_name  |-> IF st[i].item_id \in OverrideIds
                          THEN <<"override", st[i].item_id, 0>>
                          ELSE st[i].product_name,
        organic_badge |-> st[i].organic_badge,
        salience      |-> st[i].salience,
        eco_signal    |-> st[i].eco_signal,
        eco_score     |-> st[i].eco_score,
        lang_da       |-> st[i].lang_da]]

\* the variables of a program that is not running
StimIdle ==
    /\ clean = <<>> /\ flags_csv = NoFile
    /\ target_total = 0 /\ target_per_cell = 0 /\ random_seed = 0
    /\ pc = [r \in Runs |-> "idle"]
    /\ df = [r \in Runs |-> <<>>]
    /\ n_per_cell = [r \in Runs |-> -1]
    /\ rng = [r \in Runs |-> -1]
    /\ stim = [r \in Runs |-> <<>>]
    /\ out_csv = [r \in Runs |-> NoFile]

TrialIdle ==
    /\ items = <<>> /\ pools_by_cat = <<>> /\ global_pools = <<>>
    /\ mt_pc = "idle" /\ mt_args = <<>> /\ mt_result = <<>>

FlatIdle ==
    /\ bt_pc = "idle" /\ n_trials = 0 /\ max_repeats_per_name = 0
    /\ cell_targets = <<>> /\ cell_filled = <<>> /\ name_counts = <<>>
    /\ trials = <<>> /\ bt_order = [current |-> <<>>, unvisited |-> {}]
    /\ bt_error = "none" /\ bt_calls = <<>>

SampleIdle == sr_pc = "idle" /\ sr_args = <<>> /\ sr_result = <<>>

BlocksIdle ==
    /\ bb_df = <<>> /\ bb_n_blocks = 0 /\ bb_rng_seed = <<>> /\ np_global = -1
    /\ bb_pc = [r \in Runs |-> "idle"]
    /\ bb_out = [r \in Runs |-> <<>>]

RunIdle ==
    /\ ex_pc = "idle" /\ ex_items = <<>> /\ ex_n_blocks = 0
    /\ block_dfs = <<>> /\ block_indices = <<>> /\ progress_num = 0 /\ ex_row = 0
    /\ records = <<>> /\ all_records = <<>> /\ headers = <<>> /\ delivered = <<>>
    /\ consent = 0 /\ saved = <<>>

RestIdle == SampleIdle /\ BlocksIdle /\ RunIdle

(***************************************************************************)
(* SpecStim: 02_engineer_flags.py writes the flags file once; then two     *)
(* independent runs of 03a_build_stimulus_set.py read it, with the same    *)
(* constants.  The runs share nothing but the input file.                  *)
(***************************************************************************)
InitStim ==
    /\ \E cfg \in StimConfigs :
          /\ clean = CleanFile(cfg.counts, 1)
          /\ target_total = cfg.target_total
          /\ target_per_cell = cfg.target_per_cell
          /\ random_seed = cfg.random_seed
    /\ flags_csv = NoFile
    /\ pc = [r \in Runs |-> "start"]
    /\ df = [r \in Runs |-> <<>>]
    /\ n_per_cell = [r \in Runs |-> -1]
    /\ rng = [r \in Runs |-> -1]
    /\ stim = [r \in Runs |-> <<>>]
    /\ out_csv = [r \in Runs |-> NoFile]
    /\ TrialIdle /\ FlatIdle /\ RestIdle

\* 02_engineer_flags.py, the whole script
EngineerFlags ==
    /\ flags_csv = NoFile
    /\ flags_csv' = to_csv(EngineerFlagsFrame(clean))
    /\ UNCHANGED <<clean, target_total, target_per_cell, random_seed,
                   pc, df, n_per_cell, rng, stim, out_csv>>
    /\ UNCHANGED <<trialVars, flatVars, restVars>>

\* 03a lines 21-51: load, filter, cell column
Load(r) ==
    /\ pc[r] = "start"
    /\ flags_csv.written
    /\ df' = [df EXCEPT ![r] = LoadAndFilter(flags_csv)]
    /\ pc' = [pc EXCEPT ![r] = "check"]
    /\ UNCHANGED <<clean, flags_csv, target_total, target_per_cell, random_seed,
                   n_per_cell, rng, stim, out_csv>>
    /\ UNCHANGED <<trialVars, flatVars, restVars>>

\* 03a lines 54-77: the balance check; SystemExit ends the run
Check(r) ==
    /\ pc[r] = "check"
    /\ LET c == CheckBalance(target_per_cell, available_per_cell(df[r]))
       IN  /\ n_per_cell' = [n_per_cell EXCEPT ![r] = c.n_per_cell]
           /\ pc' = [pc EXCEPT ![r] = IF c.abort THEN "aborted" ELSE "sample"]
    /\ UNCHANGED <<clean, flags_csv, target_total, target_per_cell, random_seed,
                   df, rng, stim, out_csv>>
    /\ UNCHANGED <<trialVars, flatVars, restVars>>

\* 03a lines 81-111: the generator, the 4 samples, the empty salience column
Sample(r) ==
    /\ pc[r] = "sample"
    /\ rng' = [rng EXCEPT ![r] = default_rng(random_seed)]
    /\ stim' = [stim EXCEPT ![r] =
                  SampleAll(df[r], n_per_cell[r], random_seed, ProcessSalt(r))]
    /\ pc' = [pc EXCEPT ![r] = "salience"]
    /\ UNCHANGED <<clean, flags_csv, target_total, target_per_cell, random_seed,
                   df, n_per_cell, out_csv>>
    /\ UNCHANGED <<trialVars, flatVars, restVars>>

\* 03a lines 113-133: salience within each cell
Salience(r) ==
    /\ pc[r] = "salience"
    /\ LET res == SalienceLoop(stim[r], rng[r], 1)
       IN  /\ stim' = [stim EXCEPT ![r] = FillEmptySalience(res.stim)]
           /\ rng' = [rng EXCEPT ![r] = res.rng]
    /\ pc' = [pc EXCEPT ![r] = "shuffle"]
    /\ UNCHANGED <<clean, flags_csv, target_total, target_per_cell, random_seed,
                   df, n_per_cell, out_csv>>
    /\ UNCHANGED <<trialVars, flatVars, restVars>>

\* 03a lines 138-139: the final shuffle and the item ids
Shuffle(r) ==
    /\ pc[r] = "shuffle"
    /\ stim' = [stim EXCEPT ![r] = ShuffleAndId(stim[r], random_seed)]
    /\ pc' = [pc EXCEPT ![r] = "save"]
    /\ UNCHANGED <<clean, flags_csv, target_total, target_per_cell, random_seed,
                   df, n_per_cell, rng, out_csv>>
    /\ UNCHANGED <<trialVars, flatVars, restVars>>

\* 03a lines 144-185: the output columns, the name overrides, to_csv
Save(r) ==
    /\ pc[r] = "save"
    /\ out_csv' = [out_csv EXCEPT ![r] = [written |-> TRUE, rows |-> StimOut(stim[r])]]
    /\ pc' = [pc EXCEPT ![r] = "saved"]
    /\ UNCHANGED <<clean, flags_csv, target_total, target_per_cell, random_seed,
                   df, n_per_cell, rng, stim>>
    /\ UNCHANGED <<trialVars, flatVars, restVars>>

NextStim ==
    \/ EngineerFlags
    \/ \E r \in Runs : Load(r)
    \/ \E r \in Runs : Check(r)
    \/ \E r \in Runs : Sample(r)
    \/ \E r \in Runs : Salience(r)
    \/ \E r \in Runs : Shuffle(r)
    \/ \E r \in Runs : Save(r)

SpecStim == InitStim /\ [][NextStim]_vars

(***************************************************************************)
(* Properties of the single-item stimulus constructor (SpecStim).          *)
(***************************************************************************)
\* the rows of frame st in cell (organic_badge, eco_signal)
CellSize(st, cell) ==
    Cardinality({i \in 1..Len(st) : st[i].organic_badge = cell[1] /\ st[i].eco_signal = cell[2]})

SalienceSize(st, cell, sal) ==
    Cardinality({i \in 1..Len(st) : /\ st[i].organic_badge = cell[1]
                                    /\ st[i].eco_signal = cell[2]
                                    /\ st[i].salience = sal})

Sampled(r)  == pc[r] \in {"salience", "shuffle", "save", "saved"}
Salienced(r) == pc[r] \in {"shuffle", "save", "saved"}

\* the smallest of the 4 cells of run r's filtered input
SmallestCell(r) == max_balanced_per_cell(available_per_cell(df[r]))

\* C2: whenever the requested per-cell count is at most the size of the
\* smallest of the 4 cells, the sampled set, and the file written from it,
\* hold the same number of items in each of the 4 cells.
C2_FourWayBalance ==
    \A r \in Runs :
       (Sampled(r) /\ target_per_cell * 2 <= SmallestCell(r)) =>
          /\ \A a, b \in 1..4 :
                CellSize(stim[r], all_cells[a]) = CellSize(stim[r], all_cells[b])
          /\ out_csv[r].written =>
                \A a, b \in 1..4 :
                   CellSize(out_csv[r].rows, all_cells[a])
                      = CellSize(out_csv[r].rows, all_cells[b])

\* a run that sampled a proper part of some cell and wrote its file
C2_Witness ==
    \E r \in Runs :
       /\ pc[r] = "saved"
       /\ Len(out_csv[r].rows) > 0
       /\ \E a \in 1..4 : available_per_cell(df[r])[a] > n_per_cell[r]

\* C3: the per-cell count is floor(target_total / 4): when every cell holds
\* that many eligible items, the file has floor(target_total / 4) items per
\* cell, half of them low and half high, 4 * floor(target_total / 4) rows,
\* with ids 1..N.
C3_PerCellIsQuarterOfTotal ==
    \A r \in Runs :
       (pc[r] = "saved" /\ SmallestCell(r) >= target_total \div 4) =>
          LET q == target_total \div 4
              rows == out_csv[r].rows
          IN  /\ Len(rows) = 4 * q
              /\ \A a \in 1..4 :
                    /\ CellSize(rows, all_cells[a]) = q
                    /\ SalienceSize(rows, all_cells[a], "low") = q \div 2
                    /\ SalienceSize(rows, all_cells[a], "high") = q - q \div 2
              /\ \A k \in 1..Len(rows) : rows[k].item_id = k

C5_SalienceSplit ==
    \A r \in Runs :
       Salienced(r) =>
          /\ \A i \in 1..Len(stim[r]) : stim[r][i].salience \in {"low", "high"}
          /\ \A a \in 1..4 :
                LET n    == CellSize(stim[r], all_cells[a])
                    low  == SalienceSize(stim[r], all_cells[a], "low")
                    high == SalienceSize(stim[r], all_cells[a], "high")
                IN  /\ low = n \div 2
                    /\ high = n - n \div 2
                    /\ high - low \in {0, 1}

\* a run past the salience loop with items of both saliences in every cell
C5_Witness ==
    \E r \in Runs :
       /\ Salienced(r)
       /\ \A a \in 1..4 :
             /\ SalienceSize(stim[r], all_cells[a], "low") > 0
             /\ SalienceSize(stim[r], all_cells[a], "high") > 0

\* C6: in the shuffled set and in the file written from it the row at
\* position k has item_id k (so the ids are unique and are exactly 1..N),
\* and no row has an id before the final shuffle.
C6_IdsMatchRowOrder ==
    \A r \in Runs :
       /\ pc[r] \in {"save", "saved"} =>
             \A k \in 1..Len(stim[r]) : stim[r][k].item_id = k
       /\ pc[r] = "saved" =>
             /\ Len(out_csv[r].rows) = Len(stim[r])
             /\ \A k \in 1..Len(stim[r]) : out_csv[r].rows[k].item_id = k
       /\ pc[r] \notin {"save", "saved"} =>
             \A k \in 1..Len(stim[r]) : stim[r][k].item_id = NoId

\* a written file whose rows are no longer grouped by cell as the sampling
\* left them (its second row is not of the first sampled cell): the final
\* shuffle moved the rows, and the ids follow the new order
C6_Witness ==
    \E r \in Runs :
       /\ pc[r] = "saved"
       /\ Len(out_csv[r].rows) >= 8
       /\ <<out_csv[r].rows[2].organic_badge, out_csv[r].rows[2].eco_signal>>
             # all_cells[1]
       /\ out_csv[r].rows[2].item_id = 2

\* eco_signal = 1 exactly for the grades A and B, on every row of a frame
EcoConsistent(frame) ==
    \A i \in 1..Len(frame) :
       frame[i].eco_signal = (IF frame[i].eco_score \in {"A", "B"} THEN 1 ELSE 0)

\* C7: on every record eco_signal = 1 if and only if eco_score is A or B
\* (0 for C, D, E and a missing score): on the flags file as derived, and
\* on the filtered, sampled, shuffled and written stimulus rows.
C7_EcoSignalMatchesScore ==
    /\ flags_csv.written => EcoConsistent(read_csv(flags_csv))
    /\ \A r \in Runs :
          /\ EcoConsistent(df[r])
          /\ EcoConsistent(stim[r])
          /\ EcoConsistent(out_csv[r].rows)

\* a flags file with a row of missing score, and a written stimulus file
\* holding rows of both signals
C7_Witness ==
    /\ \E i \in 1..Len(flags_csv.rows) : flags_csv.rows[i].eco_score = ""
    /\ \E r \in Runs :
          /\ pc[r] = "saved"
          /\ \E i, j \in 1..Len(out_csv[r].rows) :
                /\ out_csv[r].rows[i].eco_signal = 1
                /\ out_csv[r].rows[j].eco_signal = 0

\* C8: two independent runs with the same seed, input and parameters agree
\* at every stage they have both reached: the same sampled items, the same
\* salience, the same order and ids, the same file.
C8_Deterministic ==
    pc[1] = pc[2] =>
       /\ df[1] = df[2]
       /\ n_per_cell[1] = n_per_cell[2]
       /\ rng[1] = rng[2]
       /\ stim[1] = stim[2]
       /\ out_csv[1] = out_csv[2]

\* both runs wrote a file, having sampled a proper part of some cell
C8_Witness ==
    /\ pc[1] = "saved" /\ pc[2] = "saved"
    /\ Len(out_csv[1].rows) > 0
    /\ \E a \in 1..4 : available_per_cell(df[1])[a] > n_per_cell[1]


(***************************************************************************)
(* functions.py: prepare_items, build_pools, sample_row, make_trial.       *)
(* A frame is a sequence of rows.  None is <<>>, a returned value v is     *)
(* <<v>>.  A dict is a function; its key order is kept where the code       *)
(* relies on it.                                                           *)
(***************************************************************************)
MaxRepeats == 1     \* largest max_repeats, and largest count, of a call
MaxDropped == 2     \* at most this many catalogue rows are left out

NaN == "NaN"        \* a missing category

Names == {"milk", "oat", "skyr", "rye"}

\* The raw products prepare_items is run on: two products sharing one
\* display name, a category with a single cell, an empty and a missing
\* category, and a row without a usable name.
ItemCatalogue ==
    << [product_name |-> "milk", main_category_en |-> "dairy",
        eco_score |-> "a", labels_tags |-> "en:organic", lc |-> "da"],
       [product_name |-> "milk", main_category_en |-> "dairy",
        eco_score |-> "d", labels_tags |-> "nan", lc |-> "en"],
       [product_name |-> "oat", main_category_en |-> "dairy",
        eco_score |-> "B", labels_tags |-> "en:vegan", lc |-> "en"],
       [product_name |-> "skyr", main_category_en |-> "dairy",
        eco_score |-> "e", labels_tags |-> "en:organic", lc |-> "en"],
       [product_name |-> "oat", main_category_en |-> "",
        eco_score |-> "c", labels_tags |-> "da:oekologisk,en:vegan", lc |-> "en"],
       [product_name |-> "skyr", main_category_en |-> NaN,
        eco_score |-> "unknown", labels_tags |-> "nan", lc |-> "da"],
       [product_name |-> " ", main_category_en |-> "bread",
        eco_score |-> "a", labels_tags |-> "en:organic", lc |-> "da"],
       [product_name |-> "rye", main_category_en |-> "bread",
        eco_score |-> "A", labels_tags |-> "en:organic", lc |-> "da"] >>

\* the catalogue without the rows whose position is in dropped
CatalogueWithout(dropped) ==
    LET Kept(i) == i \notin dropped
        idx == SelectSeq([i \in 1..Len(ItemCatalogue) |-> i], Kept)
    IN  [k \in 1..Len(idx) |-> ItemCatalogue[idx[k]]]

RawFrames ==
    { CatalogueWithout(d) : d \in { e \in SUBSET (1..Len(ItemCatalogue)) :
                                       Cardinality(e) <= MaxDropped } }

\* looks_danish_text on the names of the catalogue: "skyr" is a Danish word
looks_danish_text(name) == name \in {"skyr"}

\* lines 144-150: "nan" and blank names become ""
name_clean(s) == IF s \in {" ", "nan", ""} THEN "" ELSE s

\* lines 196-205: np.select over the two signals
cell_of(eco_signal, organic_label) ==
    CASE eco_signal = 1 /\ organic_label = 1 -> "A_label"
      [] eco_signal = 1 /\ organic_label = 0 -> "A_nolabel"
      [] eco_signal = 0 /\ organic_label = 1 -> "NA_label"
      [] eco_signal = 0 /\ organic_label = 0 -> "NA_nolabel"
      [] OTHER -> "other"

\* prepare_items for one row (lines 144-165, 185-205)
PrepareRow(row) ==
    LET es == derive_eco_signal(row.eco_score)
        ol == derive_organic_label(row.labels_tags)
        nm == name_clean(row.product_name)
    IN  [product_name   |-> nm,
         category       |-> IF row.main_category_en = "" THEN "unknown"
                            ELSE row.main_category_en,
         eco_score      |-> row.eco_score,
         eco_signal     |-> es,
         organic_label  |-> ol,
         cell           |-> cell_of(es, ol),
         is_danish_like |-> looks_danish_text(nm),
         is_lang_da     |-> (StrLower(row.lc) = "da")]

ItemCells == <<"A_label", "A_nolabel", "NA_label", "NA_nolabel">>

ItemCellSet == {ItemCells[i] : i \in 1..Len(ItemCells)}

\* prepare_items, strict_danish_only = False
prepare_items(frame) ==
    LET all == [i \in 1..Len(frame) |-> PrepareRow(frame[i])]
        Keep(row) == row.product_name # "" /\ row.cell \in ItemCellSet
    IN  SelectSeq(all, Keep)

\* groupby("category", dropna=False) yields its keys sorted, NaN last
CategoryOrder == <<"bread", "dairy", "unknown", NaN>>

\* build_pools line 227: the columns of a pool row
PoolRow(row) ==
    [product_name   |-> row.product_name,
     category       |-> row.category,
     eco_score      |-> row.eco_score,
     eco_signal     |-> row.eco_signal,
     organic_label  |-> row.organic_label,
     is_danish_like |-> row.is_danish_like,
     is_lang_da     |-> row.is_lang_da]

\* g[g["cell"] == key][cols].reset_index(drop=True)
CellPool(frame, key) ==
    LET InCell(row) == row.cell = key
        sub == SelectSeq(frame, InCell)
    IN  [i \in 1..Len(sub) |-> PoolRow(sub[i])]

GroupRows(frame, cat) ==
    LET InCat(row) == row.category = cat
    IN  SelectSeq(frame, InCat)

\* the mutant of build_pools: the global pools are built after the rows with
\* a missing category have been dropped
build_pools_globalNoNaN(frame) ==
    LET cats == {frame[i].category : i \in 1..Len(frame)}
        HasCat(row) == row.category # NaN
    IN  [pools_by_cat |->
            [c \in cats |->
                [key \in ItemCellSet |-> CellPool(GroupRows(frame, c), key)]],
         global_pools |->
            [key \in ItemCellSet |-> CellPool(SelectSeq(frame, HasCat), key)]]

build_pools(frame) ==
    LET cats == {frame[i].category : i \in 1..Len(frame)}
    IN  [pools_by_cat |->
            [c \in cats |->
                [key \in ItemCellSet |-> CellPool(GroupRows(frame, c), key)]],
         global_pools |-> [key \in ItemCellSet |-> CellPool(frame, key)]]

\* list(pools_by_cat.keys()): insertion order, which is the groupby order
DictKeys(pbc) ==
    LET Present(c) == c \in DOMAIN pbc
    IN  SelectSeq(CategoryOrder, Present)

\* name_counts.get(name, 0)
GetCount(nc, name) == IF name \in DOMAIN nc THEN nc[name] ELSE 0

\* str(name).strip() on the names of the modelled pools
name_strip(s) == IF s = " " THEN "" ELSE IF s = " oat" THEN "oat" ELSE s

\* the mutant of sample_row for the cap: a name at the cap still passes
sample_row_atCap(pool, idxs, nc, max_repeats) ==
    IF Len(pool) = 0 THEN <<>>
    ELSE
      LET NameAt(i) == name_strip(pool[i].product_name)
          UnderCap(i) == /\ NameAt(i) # ""
                         /\ GetCount(nc, NameAt(i)) <= max_repeats
          Danish(i) == pool[i].is_lang_da = TRUE \/ pool[i].is_danish_like = TRUE
          Pass1(i) == UnderCap(i) /\ Danish(i)
          p1 == SelectSeq(idxs, Pass1)
          p2 == SelectSeq(idxs, UnderCap)
      IN  IF p1 # <<>> THEN <<pool[Head(p1)]>>
          ELSE IF p2 # <<>> THEN <<pool[Head(p2)]>>
          ELSE <<>>

\* the mutant of sample_row for the preference: the first pass is missing
sample_row_onePass(pool, idxs, nc, max_repeats) ==
    IF Len(pool) = 0 THEN <<>>
    ELSE
      LET NameAt(i) == name_strip(pool[i].product_name)
          UnderCap(i) == /\ NameAt(i) # ""
                         /\ GetCount(nc, NameAt(i)) < max_repeats
          p2 == SelectSeq(idxs, UnderCap)
      IN  IF p2 # <<>> THEN <<pool[Head(p2)]>> ELSE <<>>

\* sample_row, with idxs the permutation rng.permutation(len(pool)) drew
sample_row(pool, idxs, nc, max_repeats) ==
    IF Len(pool) = 0 THEN <<>>
    ELSE
      LET NameAt(i) == name_strip(pool[i].product_name)
          UnderCap(i) == /\ NameAt(i) # ""
                         /\ GetCount(nc, NameAt(i)) < max_repeats
          Danish(i) == pool[i].is_lang_da = TRUE \/ pool[i].is_danish_like = TRUE
          Pass1(i) == UnderCap(i) /\ Danish(i)
          p1 == SelectSeq(idxs, Pass1)
          p2 == SelectSeq(idxs, UnderCap)
      IN  IF p1 # <<>> THEN <<pool[Head(p1)]>>
          ELSE IF p2 # <<>> THEN <<pool[Head(p2)]>>
          ELSE <<>>

\* the mutant of Needs: the incongruent pairing draws the congruent pools
Needs_noflip(congruent) == [a_need |-> "A_label", na_need |-> "NA_nolabel"]

\* make_trial line 285
Needs(congruent) ==
    IF congruent THEN [a_need |-> "A_label", na_need |-> "NA_nolabel"]
    ELSE [a_need |-> "A_nolabel", na_need |-> "NA_label"]

\* make_trial lines 289-293: the first category of the shuffled list that
\* has both pools; <<>> when chosen stays None
ChooseCategory(cats, pbc, need) ==
    LET Both(c) == /\ Len(pbc[c][need.a_need]) > 0
                   /\ Len(pbc[c][need.na_need]) > 0
        ok == SelectSeq(cats, Both)
    IN  IF ok # <<>> THEN <<Head(ok)>> ELSE <<>>

\* "if chosen:" - None and the empty string are falsy, NaN is truthy
Truthy(chosen) == chosen # <<>> /\ chosen[1] # ""

\* the mutant of TrialPools: the category is ignored, the global pools are
\* always used
TrialPools_global(congruent, cats, pbc, gp) ==
    [A |-> gp[Needs(congruent).a_need], NA |-> gp[Needs(congruent).na_need]]

\* make_trial lines 295-300
TrialPools(congruent, cats, pbc, gp) ==
    LET need == Needs(congruent)
        chosen == ChooseCategory(cats, pbc, need)
    IN  IF Truthy(chosen)
        THEN [A |-> pbc[chosen[1]][need.a_need], NA |-> pbc[chosen[1]][need.na_need]]
        ELSE [A |-> gp[need.a_need], NA |-> gp[need.na_need]]

BoolInt(b) == IF b THEN 1 ELSE 0

\* str(category): a missing category prints as "nan"
str_category(c) == IF c = NaN THEN "nan" ELSE c

\* make_trial lines 307-321
TrialRecord(congruent, left_is_A, a, na) ==
    LET left  == IF left_is_A THEN a ELSE na
        right == IF left_is_A THEN na ELSE a
    IN  [congruent     |-> BoolInt(congruent),
         left_is_A     |-> BoolInt(left_is_A),
         left_name     |-> left.product_name,
         left_cat      |-> str_category(left.category),
         left_label    |-> BoolInt(left.organic_label # 0),
         left_is_sust  |-> BoolInt(left.eco_signal # 0),
         right_name    |-> right.product_name,
         right_cat     |-> str_category(right.category),
         right_label   |-> BoolInt(right.organic_label # 0),
         right_is_sust |-> BoolInt(right.eco_signal # 0)]

\* make_trial; draw holds what rng produced: the shuffled category list and
\* the index permutations of the two sample_row calls
make_trial(congruent, left_is_A, pbc, gp, draw, nc, max_repeats) ==
    LET p  == TrialPools(congruent, draw.cats, pbc, gp)
        a  == sample_row(p.A, draw.idxA, nc, max_repeats)
        na == sample_row(p.NA, draw.idxNA, nc, max_repeats)
    IN  IF a = <<>> \/ na = <<>> THEN <<>>
        ELSE <<TrialRecord(congruent, left_is_A, a[1], na[1])>>

\* The rotations of a sequence.  Every scan in make_trial and sample_row
\* stops at the first element that passes a test, so the rotations already
\* put every element first and produce every outcome a permutation can.
Rotations(s) ==
    IF s = <<>> THEN {<<>>}
    ELSE {[i \in 1..Len(s) |-> s[((i + k - 1) % Len(s)) + 1]] : k \in 0..(Len(s) - 1)}

Indices(pool) == [i \in 1..Len(pool) |-> i]

\* build_trials_flat lines 376-379: the counter after a trial is accepted
count_names(nc, tr) ==
    [n \in (DOMAIN nc) \cup {tr.left_name, tr.right_name} |->
        GetCount(nc, n) + (IF tr.left_name = n /\ n # "" THEN 1 ELSE 0)
                        + (IF tr.right_name = n /\ n # "" THEN 1 ELSE 0)]

(***************************************************************************)
(* SpecTrial: prepare_items, build_pools, then one call of make_trial with *)
(* arguments of the caller's choice.                                       *)
(***************************************************************************)
InitTrial ==
    /\ StimIdle /\ FlatIdle /\ RestIdle
    /\ items \in RawFrames
    /\ pools_by_cat = <<>> /\ global_pools = <<>>
    /\ mt_pc = "raw" /\ mt_args = <<>> /\ mt_result = <<>>

PrepareItems ==
    /\ mt_pc = "raw"
    /\ items' = prepare_items(items)
    /\ mt_pc' = "items"
    /\ UNCHANGED <<pools_by_cat, global_pools, mt_args, mt_result>>
    /\ UNCHANGED <<stimVars, flatVars, restVars>>

BuildPools ==
    /\ mt_pc = "items"
    /\ pools_by_cat' = build_pools(items).pools_by_cat
    /\ global_pools' = build_pools(items).global_pools
    /\ mt_pc' = "pools"
    /\ UNCHANGED <<items, mt_args, mt_result>>
    /\ UNCHANGED <<stimVars, flatVars, restVars>>

CallMakeTrial ==
    /\ mt_pc = "pools"
    /\ \E congruent \in BOOLEAN, left_is_A \in BOOLEAN,
          nc \in [Names -> 0..MaxRepeats], max_repeats \in 0..MaxRepeats :
         \E cats \in Rotations(DictKeys(pools_by_cat)) :
           LET p == TrialPools(congruent, cats, pools_by_cat, global_pools)
           IN  \E idxA \in Rotations(Indices(p.A)), idxNA \in Rotations(Indices(p.NA)) :
                 /\ mt_args' = [congruent |-> congruent, left_is_A |-> left_is_A,
                                name_counts |-> nc, max_repeats |-> max_repeats]
                 /\ mt_result' = make_trial(congruent, left_is_A, pools_by_cat,
                                            global_pools,
                                            [cats |-> cats, idxA |-> idxA, idxNA |-> idxNA],
                                            nc, max_repeats)
    /\ mt_pc' = "called"
    /\ UNCHANGED <<items, pools_by_cat, global_pools>>
    /\ UNCHANGED <<stimVars, flatVars, restVars>>

NextTrial == PrepareItems \/ BuildPools \/ CallMakeTrial

SpecTrial == InitTrial /\ [][NextTrial]_vars

(***************************************************************************)
(* functions.py: build_trials_flat.  The keys of its dicts are tuples of   *)
(* Python values, so a value carries its type: the int 0 and the string    *)
(* "0" are different keys.                                                 *)
(***************************************************************************)
MaxTrials == 11     \* largest n_trials

RepeatCaps == {1, 5}     \* max_repeats_per_name; 5 is the default

PyInt(i) == <<"int", IF i = 0 THEN "0" ELSE "1">>

PyStr(s) == <<"str", s>>

\* str(v) of a Python value
PyToStr(v) == v[2]

\* line 333-335
cells ==
    << <<PyInt(0), PyInt(0), PyStr("low")>>, <<PyInt(0), PyInt(0), PyStr("high")>>,
       <<PyInt(0), PyInt(1), PyStr("low")>>, <<PyInt(0), PyInt(1), PyStr("high")>>,
       <<PyInt(1), PyInt(0), PyStr("low")>>, <<PyInt(1), PyInt(0), PyStr("high")>>,
       <<PyInt(1), PyInt(1), PyStr("low")>>, <<PyInt(1), PyInt(1), PyStr("high")>> >>

CellSet == {cells[i] : i \in 1..Len(cells)}

\* the mutant of per_cell: the quota rounded to nearest instead of floored
per_cell_rounded(n) == (n + 4) \div 8

\* line 337
per_cell(n) == n \div 8

\* line 338
remainder(n) == n - per_cell(n) * 8

\* the length of a Python slice [:stop] of a sequence of length len
SliceLen(len, stop) ==
    IF stop >= 0 THEN Min(stop, len)
    ELSE IF len + stop > 0 THEN len + stop ELSE 0

\* lines 340-343, picked being the cells of rng.permutation(8)[:remainder]
TargetsFor(n, picked) ==
    [k \in CellSet |-> per_cell(n) + (IF k \in picked THEN 1 ELSE 0)]

\* np.asarray(cells): one string dtype for the whole array, so every
\* element becomes its str()
np_asarray_row(cell) == [i \in 1..Len(cell) |-> PyStr(PyToStr(cell[i]))]

\* line 349: the rows of rng.permutation(cells)
PermutedRows == {np_asarray_row(cells[i]) : i \in 1..Len(cells)}

InitFlat ==
    /\ StimIdle /\ RestIdle
    /\ items = prepare_items(ItemCatalogue)
    /\ pools_by_cat = build_pools(items).pools_by_cat
    /\ global_pools = build_pools(items).global_pools
    /\ mt_pc = "pools" /\ mt_args = <<>> /\ mt_result = <<>>
    /\ bt_pc = "start"
    /\ n_trials \in 0..MaxTrials
    /\ max_repeats_per_name \in RepeatCaps
    /\ cell_targets = <<>> /\ cell_filled = <<>> /\ name_counts = <<>>
    /\ trials = <<>> /\ bt_order = [current |-> <<>>, unvisited |-> {}]
    /\ bt_error = "none"
    /\ bt_calls = [k \in CellSet |-> <<>>]

\* lines 330-348
Targets ==
    /\ bt_pc = "start"
    /\ \E picked \in SUBSET CellSet :
         /\ Cardinality(picked) = SliceLen(Len(cells), remainder(n_trials))
         /\ cell_targets' = TargetsFor(n_trials, picked)
    /\ cell_filled' = [k \in CellSet |-> 0]
    /\ name_counts' = <<>>
    /\ trials' = <<>>
    /\ bt_pc' = "targets"
    /\ UNCHANGED <<n_trials, max_repeats_per_name, bt_order, bt_error, bt_calls>>
    /\ UNCHANGED <<stimVars, trialVars, restVars>>

\* line 349: rng.permutation(cells) is evaluated; the order of its rows is
\* fixed as the loop visits them
Permute ==
    /\ bt_pc = "targets"
    /\ bt_order' = [current |-> <<>>, unvisited |-> PermutedRows]
    /\ bt_pc' = "loop"
    /\ UNCHANGED <<n_trials, max_repeats_per_name, cell_targets, cell_filled,
                   name_counts, trials, bt_error, bt_calls>>
    /\ UNCHANGED <<stimVars, trialVars, restVars>>

\* lines 349-350: the loop takes its next row (c, l, s) and looks up
\* cell_targets[(c, l, s)]; a missing key raises KeyError, a key that is
\* present leads into the while loop of line 351
Visit ==
    /\ bt_pc = "loop"
    /\ \E row \in bt_order.unvisited :
         /\ bt_order' = [current |-> row, unvisited |-> bt_order.unvisited \ {row}]
         /\ IF row \in DOMAIN cell_targets
            THEN bt_pc' = "fill" /\ bt_error' = bt_error
            ELSE bt_pc' = "raised" /\ bt_error' = "KeyError"
    /\ UNCHANGED <<n_trials, max_repeats_per_name, cell_targets, cell_filled,
                   name_counts, trials, bt_calls>>
    /\ UNCHANGED <<stimVars, trialVars, restVars>>

NextFlat == Targets \/ Permute \/ Visit

SpecFlat == InitFlat /\ [][NextFlat]_vars

(***************************************************************************)
(* Claims about make_trial and build_trials_flat.                          *)
(***************************************************************************)
TrialReturned == mt_pc = "called" /\ mt_result # <<>>

\* the pair <<eco_signal, organic_label>> the trial shows for the drawn
\* A item and for the item paired with it
ASide(t) ==
    IF t.left_is_A = 1 THEN <<t.left_is_sust, t.left_label>>
    ELSE <<t.right_is_sust, t.right_label>>

PairedSide(t) ==
    IF t.left_is_A = 1 THEN <<t.right_is_sust, t.right_label>>
    ELSE <<t.left_is_sust, t.left_label>>

\* C9: every trial make_trial returns from pools built by build_pools
\* carries the flags it was called with; when congruent, its A-side item has
\* eco_signal 1 and organic_label 1 and the paired item has both 0; when
\* incongruent, the A-side item has eco_signal 1 and organic_label 0 and the
\* paired item eco_signal 0 and organic_label 1; and the item with
\* eco_signal 1 is the left one exactly when left_is_A is 1.
C9_TrialStructure ==
    TrialReturned =>
      LET t == mt_result[1]
      IN  /\ t.congruent = BoolInt(mt_args.congruent)
          /\ t.left_is_A = BoolInt(mt_args.left_is_A)
          /\ (t.congruent = 1 => ASide(t) = <<1, 1>> /\ PairedSide(t) = <<0, 0>>)
          /\ (t.congruent = 0 => ASide(t) = <<1, 0>> /\ PairedSide(t) = <<0, 1>>)
          /\ (t.left_is_sust = 1 <=> t.left_is_A = 1)
          /\ (t.right_is_sust = 1 <=> t.left_is_A = 0)

\* an incongruent trial with the A item on the right has been returned
C9_Witness ==
    /\ TrialReturned
    /\ mt_result[1].congruent = 0
    /\ mt_result[1].left_is_A = 0
    /\ mt_result[1].right_is_sust = 1
    /\ mt_result[1].left_label = 1

\* C1: no name is used more often than max_repeats_per_name.  Stated on the
\* step the trial set is built from: when every count is within the cap
\* before make_trial is called, every count is still within the cap after
\* the returned trial has been counted as lines 376-379 count it.
C1_NameUseWithinCap ==
    (/\ TrialReturned
     /\ \A n \in Names : mt_args.name_counts[n] <= mt_args.max_repeats)
    => \A n \in Names :
         count_names(mt_args.name_counts, mt_result[1])[n] <= mt_args.max_repeats

TargetSum == SeqSum([i \in 1..Len(cells) |-> cell_targets[cells[i]]])

TargetsSet == bt_pc \in {"targets", "loop", "fill", "raised"}

\* C10: once build_trials_flat has set its cell targets, the 8 targets sum
\* to n_trials, each is floor(n_trials/8) or one more, and exactly
\* n_trials mod 8 cells have the extra one.
C10_TargetsSumToN ==
    TargetsSet =>
      /\ TargetSum = n_trials
      /\ \A k \in CellSet :
           cell_targets[k] \in {n_trials \div 8, (n_trials \div 8) + 1}
      /\ Cardinality({k \in CellSet : cell_targets[k] = (n_trials \div 8) + 1})
           = n_trials % 8

\* 11 trials: quota 1, and three cells have 2
C10_Witness ==
    /\ bt_pc = "targets"
    /\ n_trials = 11
    /\ Cardinality({k \in CellSet : cell_targets[k] = 2}) = 3
    /\ Cardinality({k \in CellSet : cell_targets[k] = 1}) = 5

FilledSum == SeqSum([i \in 1..Len(cells) |-> cell_filled[cells[i]]])

\* C11: build_trials_flat never raises, whatever the pools, n_trials and
\* max_repeats_per_name; at every point each cell's filled count is at most
\* its target and the number of trials built is the sum of the filled counts.
C11_NeverRaises ==
    /\ bt_error = "none"
    /\ bt_pc # "raised"
    /\ TargetsSet =>
         /\ \A k \in CellSet : cell_filled[k] <= cell_targets[k]
         /\ Len(trials) = FilledSum

\* build_trials_flat has stopped: it returned or an exception ended it
FlatStopped == bt_pc \in {"returned", "raised"}

\* C17: no slot is given more than 15 make_trial calls, and giving a slot up
\* costs only that slot: when build_trials_flat has stopped, every slot of
\* every cell has been taken up (filled, or given up after its calls).
C17_EverySlotAttemptedAtMost15 ==
    /\ \A k \in DOMAIN bt_calls : \A j \in 1..Len(bt_calls[k]) :
          bt_calls[k][j] \in 1..15
    /\ FlatStopped =>
          \A k \in DOMAIN cell_targets : Len(bt_calls[k]) = cell_targets[k]

(***************************************************************************)
(* SpecSample: one call of sample_row on a pool the caller hands over.     *)
(* The rows carry the columns sample_row reads.                            *)
(***************************************************************************)
MaxPool == 2        \* largest pool of a direct call

\* names of direct calls: one plain, one that str.strip changes, one blank
SampleNames == {"milk", " oat", " "}

\* the keys a counter holds: stripped names
CounterNames == {"milk", "oat"}

SampleRows ==
    [product_name : SampleNames, is_lang_da : BOOLEAN, is_danish_like : BOOLEAN]

SamplePools == UNION {[1..n -> SampleRows] : n \in 0..MaxPool}

InitSample ==
    /\ StimIdle /\ TrialIdle /\ FlatIdle /\ BlocksIdle /\ RunIdle
    /\ sr_pc = "ready" /\ sr_args = <<>> /\ sr_result = <<>>

CallSampleRow ==
    /\ sr_pc = "ready"
    /\ \E pool \in SamplePools, nc \in [CounterNames -> 0..MaxRepeats],
          max_repeats \in 0..MaxRepeats :
         \E idxs \in Rotations(Indices(pool)) :
           /\ sr_args' = [pool |-> pool, idxs |-> idxs, name_counts |-> nc,
                          max_repeats |-> max_repeats]
           /\ sr_result' = sample_row(pool, idxs, nc, max_repeats)
    /\ sr_pc' = "called"
    /\ UNCHANGED <<stimVars, trialVars, flatVars, blockVars, runVars>>

NextSample == CallSampleRow

SpecSample == InitSample /\ [][NextSample]_vars

\* the positions of the pool whose row has a non-blank name that has been
\* used fewer than max_repeats times
UnderCapRows ==
    {i \in 1..Len(sr_args.pool) :
        /\ name_strip(sr_args.pool[i].product_name) # ""
        /\ GetCount(sr_args.name_counts, name_strip(sr_args.pool[i].product_name))
             < sr_args.max_repeats}

Flagged(row) == row.is_lang_da \/ row.is_danish_like

\* C12: sample_row returns None exactly when the pool has no row with a
\* non-blank name used fewer than max_repeats times (the empty pool
\* included); a row it returns is a row of the pool whose name has been used
\* fewer than max_repeats times.
C12_NoneIffExhausted ==
    sr_pc = "called" =>
      /\ (sr_result = <<>> <=> UnderCapRows = {})
      /\ (sr_result # <<>> =>
            \E i \in UnderCapRows : sr_args.pool[i] = sr_result[1])

\* None from a pool that is not empty: the name of one row is at the cap
\* and the name of the other is blank
C12_Witness ==
    /\ sr_pc = "called"
    /\ sr_result = <<>>
    /\ Len(sr_args.pool) = 2
    /\ sr_args.max_repeats = 1
    /\ sr_args.pool[1].product_name = "milk"
    /\ sr_args.name_counts["milk"] = 1
    /\ sr_args.pool[2].product_name = " "

\* C13: when the pool holds an under-cap row whose is_lang_da or
\* is_danish_like flag is true, the row sample_row returns has such a flag;
\* a row without the flag is returned only when no under-cap row has it.
C13_DanishPreferred ==
    (sr_pc = "called" /\ sr_result # <<>>) =>
      ((\E i \in UnderCapRows : Flagged(sr_args.pool[i])) <=> Flagged(sr_result[1]))

\* the permutation puts an under-cap row without the flag first, and the
\* flagged row behind it is returned
C13_Witness ==
    /\ sr_pc = "called"
    /\ Len(sr_args.pool) = 2
    /\ UnderCapRows = {1, 2}
    /\ ~Flagged(sr_args.pool[sr_args.idxs[1]])
    /\ Flagged(sr_args.pool[sr_args.idxs[2]])
    /\ sr_result = <<sr_args.pool[sr_args.idxs[2]]>>

(***************************************************************************)
(* Claims about build_pools and the pools make_trial draws from.           *)
(***************************************************************************)
PoolsBuilt == mt_pc \in {"pools", "called"}

InPool(row, pool) == \E j \in 1..Len(pool) : pool[j] = row

\* C14: every row of a category pool pools_by_cat[cat][cell] is also a row
\* of the global pool global_pools[cell] of the same cell, for every
\* category (the missing category included) and each of the 4 cells.
C14_CategoryPoolInGlobal ==
    PoolsBuilt =>
      \A cat \in DOMAIN pools_by_cat : \A key \in ItemCellSet :
        \A i \in 1..Len(pools_by_cat[cat][key]) :
          InPool(pools_by_cat[cat][key][i], global_pools[key])

\* pools with a row under the missing category and rows under a named one
C14_Witness ==
    /\ PoolsBuilt
    /\ NaN \in DOMAIN pools_by_cat
    /\ Len(pools_by_cat[NaN]["NA_nolabel"]) = 1
    /\ "dairy" \in DOMAIN pools_by_cat
    /\ Len(pools_by_cat["dairy"]["A_label"]) = 1
    /\ Len(global_pools["NA_nolabel"]) = 2

\* the two cells a call of make_trial needs, from its congruent argument
NeedA  == IF mt_args.congruent THEN "A_label" ELSE "A_nolabel"

NeedNA == IF mt_args.congruent THEN "NA_nolabel" ELSE "NA_label"

\* the categories with a nonempty pool for both cells
QualifyingCats ==
    {c \in DOMAIN pools_by_cat :
        Len(pools_by_cat[c][NeedA]) > 0 /\ Len(pools_by_cat[c][NeedNA]) > 0}

HasName(pool, name) == \E j \in 1..Len(pool) : pool[j].product_name = name

\* the pool has a row the cap of the call still admits
CanSupply(pool) ==
    \E j \in 1..Len(pool) :
       /\ name_strip(pool[j].product_name) # ""
       /\ GetCount(mt_args.name_counts, name_strip(pool[j].product_name))
            < mt_args.max_repeats

\* the names of the A item and of the paired item of a trial
AName(t)  == IF t.left_is_A = 1 THEN t.left_name ELSE t.right_name

NAName(t) == IF t.left_is_A = 1 THEN t.right_name ELSE t.left_name

TrialFields ==
    {"congruent", "left_is_A", "left_name", "left_cat", "left_label",
     "left_is_sust", "right_name", "right_cat", "right_label", "right_is_sust"}

\* C19: when some category has a nonempty pool for both required cells,
\* make_trial draws both items from the two pools of one such category (so
\* both items carry that category) and does not turn to the global pools
\* even if the pools of that category cannot supply; when no category has,
\* it draws from the two global pools; the trial has no field that tells.
C19_CategoryThenGlobal ==
    mt_pc = "called" =>
      /\ (QualifyingCats # {} /\ mt_result # <<>>) =>
            \E c \in QualifyingCats :
               /\ HasName(pools_by_cat[c][NeedA], AName(mt_result[1]))
               /\ HasName(pools_by_cat[c][NeedNA], NAName(mt_result[1]))
               /\ mt_result[1].left_cat = str_category(c)
               /\ mt_result[1].right_cat = str_category(c)
      /\ (QualifyingCats # {} /\ mt_result = <<>>) =>
            \E c \in QualifyingCats :
               ~CanSupply(pools_by_cat[c][NeedA]) \/ ~CanSupply(pools_by_cat[c][NeedNA])
      /\ QualifyingCats = {} =>
            /\ mt_result # <<>> <=>
                 (CanSupply(global_pools[NeedA]) /\ CanSupply(global_pools[NeedNA]))
            /\ mt_result # <<>> =>
                 /\ HasName(global_pools[NeedA], AName(mt_result[1]))
                 /\ HasName(global_pools[NeedNA], NAName(mt_result[1]))
      /\ mt_result # <<>> => DOMAIN mt_result[1] = TrialFields

\* no category has both pools, and the trial pairs items of two categories
C19_Witness ==
    /\ mt_pc = "called"
    /\ QualifyingCats = {}
    /\ mt_result # <<>>
    /\ mt_result[1].left_cat # mt_result[1].right_cat

(***************************************************************************)
(* experiment_run_functions.py: build_blocks_from_items.  A row's index    *)
(* label is its position in df (read_csv gives a RangeIndex).              *)
(***************************************************************************)
MaxBlocks == 3      \* largest n_blocks of the scaled-down calls

\* what the operating system may seed a generator with
EntropyValues == {11, 12}

\* line 285: salience.astype(str).str.lower().str.strip()
salience_norm(s) == IF s \in {"Low ", "low"} THEN "low"
                    ELSE IF s \in {"High", "high"} THEN "high" ELSE s

\* lines 281-287: the _cell of a row
block_cell(row) == <<row.organic_badge, row.eco_signal, salience_norm(row.salience)>>

\* line 290: groupby("_cell") yields the groups in sorted key order
BlockCellOrder ==
    << <<0, 0, "high">>, <<0, 0, "low">>, <<0, 1, "high">>, <<0, 1, "low">>,
       <<1, 0, "high">>, <<1, 0, "low">>, <<1, 1, "high">>, <<1, 1, "low">> >>

\* lines 279-287: the copy of df with its _cell column
with_cell(frame) ==
    [i \in 1..Len(frame) |-> frame[i] @@ [c \in {"_cell"} |-> block_cell(frame[i])]]

\* line 300: drop(columns=[...]) on one row
drop_columns(row, columns) == [f \in DOMAIN row \ columns |-> row[f]]

\* line 291: idx = list(g.index)
GroupIdx(frame, cell) ==
    LET InGroup(i) == frame[i]["_cell"] = cell
    IN  SelectSeq([i \in 1..Len(frame) |-> i], InGroup)

\* the mutant of block_of: two consecutive items go to the same block
block_of_pairs(k, n_blocks) == (k \div 2) % n_blocks

\* line 294: blocks[k % n_blocks]
block_of(k, n_blocks) == k % n_blocks

\* the mutant of Dealt: only full rounds are dealt, the rest of the group
\* goes to no block
Dealt_fullRounds(idx, n_blocks, b) ==
    [j \in 1..(Len(idx) \div n_blocks) |-> idx[(j - 1) * n_blocks + b + 1]]

\* lines 293-294 for one group: what the group appends to block b (0-based)
Dealt(idx, n_blocks, b) ==
    LET ToB(k) == block_of(k - 1, n_blocks) = b
        ks == SelectSeq([k \in 1..Len(idx) |-> k], ToB)
    IN  [j \in 1..Len(ks) |-> idx[ks[j]]]

RECURSIVE DealGroups(_, _, _, _, _)
\* lines 289-294: the groups ci..8 dealt onto blocks; rng is threaded through
DealGroups(frame, n_blocks, g, ci, blocks) ==
    IF ci > Len(BlockCellOrder) THEN blocks
    ELSE LET idx == GroupIdx(frame, BlockCellOrder[ci])
             sh  == shuffle(idx, g)
         IN  DealGroups(frame, n_blocks, sh.state, ci + 1,
                        [b \in 1..n_blocks |-> blocks[b] \o Dealt(sh.perm, n_blocks, b - 1)])

RECURSIVE FrameBlocks(_, _, _, _)
\* lines 296-304: each block's rows, shuffled by sample(frac=1.0,
\* random_state=None), which draws from NumPy's global generator
FrameBlocks(frame, blocks, glob, b) ==
    IF b > Len(blocks) THEN [out |-> <<>>, np_global |-> glob]
    ELSE LET rows == [j \in 1..Len(blocks[b]) |->
                         drop_columns(frame[blocks[b][j]], {"_cell"})]
             sh   == shuffle(rows, glob)
             rest == FrameBlocks(frame, blocks, sh.state, b + 1)
         IN  [out |-> <<sh.perm>> \o rest.out, np_global |-> rest.np_global]

\* build_blocks_from_items, g being the state of default_rng(rng_seed) and
\* glob the state of the global generator
build_blocks_from_items(frame, n_blocks, g, glob) ==
    LET df_copy == with_cell(frame)
    IN  FrameBlocks(df_copy,
                    DealGroups(df_copy, n_blocks, g, 1, [b \in 1..n_blocks |-> <<>>]),
                    glob, 1)

\* items the scaled-down calls choose their rows from
BlockCatalogue ==
    << [item_id |-> 1, organic_badge |-> 0, eco_signal |-> 0, salience |-> "low"],
       [item_id |-> 2, organic_badge |-> 1, eco_signal |-> 1, salience |-> "high"],
       [item_id |-> 3, organic_badge |-> 0, eco_signal |-> 0, salience |-> "Low "],
       [item_id |-> 4, organic_badge |-> 0, eco_signal |-> 0, salience |-> "low"],
       [item_id |-> 5, organic_badge |-> 1, eco_signal |-> 1, salience |-> "High"],
       [item_id |-> 6, organic_badge |-> 0, eco_signal |-> 0, salience |-> "low"] >>

BlockFrame(keep) ==
    LET Kept(i) == i \in keep
        idx == SelectSeq([i \in 1..Len(BlockCatalogue) |-> i], Kept)
    IN  [k \in 1..Len(idx) |-> BlockCatalogue[idx[k]]]

\* a stimulus set of the size 03a writes: 160 rows, 20 in each of the 8
\* badge x signal x salience cells, the cells interleaved
StimulusSet160 ==
    [i \in 1..160 |->
        [item_id       |-> i,
         organic_badge |-> ((i - 1) \div 4) % 2,
         eco_signal    |-> ((i - 1) \div 2) % 2,
         salience      |-> IF (i - 1) % 2 = 0 THEN "low" ELSE "high"]]

BlockConfigs ==
    { [df |-> BlockFrame(keep), n_blocks |-> n, rng_seed |-> sd] :
        keep \in SUBSET (1..Len(BlockCatalogue)), n \in 1..MaxBlocks,
        sd \in {<<>>, <<637>>, <<638>>} }
    \cup { [df |-> StimulusSet160, n_blocks |-> 4, rng_seed |-> <<637>>] }

(***************************************************************************)
(* SpecBlocks: two calls of build_blocks_from_items in one process, with   *)
(* the same df, n_blocks and rng_seed.                                     *)
(***************************************************************************)
InitBlocks ==
    /\ StimIdle /\ TrialIdle /\ FlatIdle /\ SampleIdle /\ RunIdle
    /\ \E cfg \in BlockConfigs :
         /\ bb_df = cfg.df
         /\ bb_n_blocks = cfg.n_blocks
         /\ bb_rng_seed = cfg.rng_seed
    /\ np_global \in EntropyValues
    /\ bb_pc = [r \in Runs |-> "ready"]
    /\ bb_out = [r \in Runs |-> <<>>]

BuildBlocksCall(r) ==
    /\ bb_pc[r] = "ready"
    /\ \E e \in EntropyValues :
         LET g   == IF bb_rng_seed = <<>> THEN default_rng(e)
                    ELSE default_rng(bb_rng_seed[1])
             res == build_blocks_from_items(bb_df, bb_n_blocks, g, np_global)
         IN  /\ bb_out' = [bb_out EXCEPT ![r] = res.out]
             /\ np_global' = res.np_global
    /\ bb_pc' = [bb_pc EXCEPT ![r] = "returned"]
    /\ UNCHANGED <<bb_df, bb_n_blocks, bb_rng_seed>>
    /\ UNCHANGED <<stimVars, trialVars, flatVars, sampleVars, runVars>>

NextBlocks == \E r \in Runs : BuildBlocksCall(r)

SpecBlocks == InitBlocks /\ [][NextBlocks]_vars

(***************************************************************************)
(* Claims about build_blocks_from_items.                                   *)
(***************************************************************************)
\* the number of rows of a block frame that are of a _cell
InBlock(block, cell) ==
    Cardinality({j \in 1..Len(block) : block_cell(block[j]) = cell})

\* the number of rows of a block frame that are of a badge x signal cell
InBlock4(block, cell) ==
    Cardinality({j \in 1..Len(block) :
                   <<block[j].organic_badge, block[j].eco_signal>> = cell})

BlockCellSet == {BlockCellOrder[i] : i \in 1..Len(BlockCellOrder)}

\* the ids of the rows of a block frame
BlockIds(block) == {block[j].item_id : j \in 1..Len(block)}

BothReturned == \A r \in Runs : bb_pc[r] = "returned"

\* C20: two calls of build_blocks_from_items with the same rng_seed and the
\* same items return identical blocks: the same items in each block, in the
\* same order.
C20_SameSeedSameBlocks ==
    (BothReturned /\ bb_rng_seed # <<>>) => bb_out[1] = bb_out[2]

\* how often a row occurs in the blocks of a returned list
TimesInBlocks(out, row) ==
    SeqSum([b \in 1..Len(out) |->
        Cardinality({j \in 1..Len(out[b]) : out[b][j] = row})])

\* how often a row occurs in a frame
TimesInFrame(frame, row) == Cardinality({i \in 1..Len(frame) : frame[i] = row})

\* C23: build_blocks_from_items returns a partition of df: n_blocks blocks;
\* every row of df is in the blocks as often as it is in df (once, for
\* distinct items); every row of a block is a row of df, without the _cell
\* column; the blocks together have as many rows as df; df itself has not
\* gained the _cell column.
C23_BlocksPartitionInput ==
    \A r \in Runs : bb_pc[r] = "returned" =>
        /\ Len(bb_out[r]) = bb_n_blocks
        /\ \A i \in 1..Len(bb_df) :
              TimesInBlocks(bb_out[r], bb_df[i]) = TimesInFrame(bb_df, bb_df[i])
        /\ \A b \in 1..Len(bb_out[r]) : \A j \in 1..Len(bb_out[r][b]) :
              /\ TimesInFrame(bb_df, bb_out[r][b][j]) >= 1
              /\ "_cell" \notin DOMAIN bb_out[r][b][j]
        /\ SeqSum([b \in 1..Len(bb_out[r]) |-> Len(bb_out[r][b])]) = Len(bb_df)
        /\ \A i \in 1..Len(bb_df) : "_cell" \notin DOMAIN bb_df[i]

\* a call has returned three blocks for five items: the blocks are of
\* unequal size and every item is in one of them
C23_Witness ==
    \E r \in Runs :
        /\ bb_pc[r] = "returned"
        /\ Len(bb_df) = 5 /\ bb_n_blocks = 3
        /\ \E b, c \in 1..Len(bb_out[r]) : Len(bb_out[r][b]) > Len(bb_out[r][c])
        /\ \A i \in 1..Len(bb_df) : TimesInBlocks(bb_out[r], bb_df[i]) = 1

(***************************************************************************)
(* experiment_run_functions.py: run_experiment, with run_block, run_trial, *)
(* show_consent, show_instructions and show_block_header.  The participant *)
(* is the environment: every wait for a key is one step, the key drawn     *)
(* from the keys the wait accepts.                                         *)
(***************************************************************************)
\* most rows of the trials file of a scaled-down session
MaxRunItems == 3

\* the rating keys a scaled-down participant uses, of key_list (line 216)
RatingKeys == {"1", "7"}

\* line 227: int(key)
int_key(key) ==
    CASE key = "1" -> 1 [] key = "2" -> 2 [] key = "3" -> 3 [] key = "4" -> 4
      [] key = "5" -> 5 [] key = "6" -> 6 [] key = "7" -> 7

\* random.shuffle(block_indices) is not seeded: any order of the indices
ShuffledIndices(n) ==
    {p \in [1..n -> 1..n] : \A i, j \in 1..n : p[i] = p[j] => i = j}

\* the mutant of shown_block_num: the block's construction index
shown_block_num_constructed(pn, block_i) == block_i

\* line 358: shown_block_num=progress_num
shown_block_num(pn, block_i) == pn

\* lines 259-262: the record of one rated row
TrialRec(row, key, shown) ==
    [item_id |-> row.item_id, rating |-> int_key(key), block_shown |-> shown]

InitRun ==
    /\ StimIdle /\ TrialIdle /\ FlatIdle /\ SampleIdle /\ BlocksIdle
    /\ ex_pc = "start"
    /\ \E m \in 0..MaxRunItems : ex_items = BlockFrame(1..m)
    /\ ex_n_blocks \in 1..MaxBlocks
    /\ block_dfs = <<>> /\ block_indices = <<>> /\ progress_num = 0 /\ ex_row = 0
    /\ records = <<>> /\ all_records = <<>> /\ headers = <<>> /\ delivered = <<>>
    /\ consent = 0 /\ saved = <<>>

\* lines 339-341
BuildAndShuffle ==
    /\ ex_pc = "start"
    /\ \E e, glob \in EntropyValues :
         block_dfs' = build_blocks_from_items(ex_items, ex_n_blocks,
                                              default_rng(e), glob).out
    /\ block_indices' \in ShuffledIndices(ex_n_blocks)
    /\ ex_pc' = "consent"
    /\ UNCHANGED <<ex_items, ex_n_blocks, progress_num, ex_row, records, all_records,
                   headers, delivered, consent, saved>>

\* lines 370-380: the handler of KeyboardInterrupt
Interrupted ==
    /\ IF consent # 1
         THEN ex_pc' = "exit" /\ saved' = saved
         ELSE ex_pc' = "saved_partial" /\ saved' = Append(saved, all_records)
    /\ UNCHANGED <<progress_num, ex_row, records, all_records, headers, delivered,
                   consent>>

\* lines 347-348, show_consent
Consent ==
    /\ ex_pc = "consent"
    /\ \E key \in {"y", "n", "escape"} :
         IF key \in {"n", "escape"} THEN Interrupted
         ELSE /\ consent' = 1
              /\ ex_pc' = "instructions"
              /\ UNCHANGED <<progress_num, ex_row, records, all_records, headers,
                             delivered, saved>>
    /\ UNCHANGED <<ex_items, ex_n_blocks, block_dfs, block_indices>>

\* lines 353-364: the for loop goes on to its next block, or ends
NextBlockPc(pn) == IF pn > Len(block_indices) THEN "finish" ELSE "header"

\* line 350, show_instructions; then the loop takes its first block
Instructions ==
    /\ ex_pc = "instructions"
    /\ \E key \in {"space", "escape"} :
         IF key = "escape" THEN Interrupted
         ELSE /\ progress_num' = 1
              /\ ex_pc' = NextBlockPc(1)
              /\ UNCHANGED <<ex_row, records, all_records, headers, delivered,
                             consent, saved>>
    /\ UNCHANGED <<ex_items, ex_n_blocks, block_dfs, block_indices>>

\* lines 354-360 and 253-255: run_block is called and shows the header
BlockHeader ==
    /\ ex_pc = "header"
    /\ LET block_i == block_indices[progress_num]
           shown   == shown_block_num(progress_num, block_i)
       IN  \E key \in {"space", "escape"} :
             /\ headers' = Append(headers, <<shown, Len(block_dfs)>>)
             /\ delivered' = Append(delivered, block_i)
             /\ IF key = "escape"
                  THEN /\ ex_pc' = "saved_partial"
                       /\ saved' = Append(saved, all_records)
                       /\ UNCHANGED <<progress_num, ex_row, records>>
                  ELSE /\ saved' = saved
                       /\ records' = <<>>
                       /\ IF Len(block_dfs[block_i]) = 0
                            THEN /\ progress_num' = progress_num + 1
                                 /\ ex_pc' = NextBlockPc(progress_num + 1)
                                 /\ ex_row' = ex_row
                            ELSE /\ ex_row' = 1
                                 /\ ex_pc' = "trial"
                                 /\ progress_num' = progress_num
    /\ UNCHANGED <<ex_items, ex_n_blocks, block_dfs, block_indices, all_records, consent>>

\* lines 256-264 and 361-364: run_trial on one row; after the last row of
\* the block run_block returns and its records join all_records
RunTrial ==
    /\ ex_pc = "trial"
    /\ LET block_i  == block_indices[progress_num]
           block_df == block_dfs[block_i]
           shown    == shown_block_num(progress_num, block_i)
       IN  \E key \in RatingKeys \cup {"escape"} :
             IF key = "escape" THEN Interrupted
             ELSE LET recs == Append(records, TrialRec(block_df[ex_row], key, shown))
                  IN  /\ IF ex_row = Len(block_df)
                           THEN /\ all_records' = all_records \o recs
                                /\ records' = <<>>
                                /\ progress_num' = progress_num + 1
                                /\ ex_pc' = NextBlockPc(progress_num + 1)
                                /\ ex_row' = ex_row
                           ELSE /\ all_records' = all_records
                                /\ records' = recs
                                /\ ex_row' = ex_row + 1
                                /\ UNCHANGED <<progress_num, ex_pc>>
                      /\ UNCHANGED <<headers, delivered, consent, saved>>
    /\ UNCHANGED <<ex_items, ex_n_blocks, block_dfs, block_indices>>

\* lines 366-369: the closing screen, then save_records
Finish ==
    /\ ex_pc = "finish"
    /\ \E key \in {"space", "escape"} :
         IF key = "escape" THEN Interrupted
         ELSE /\ saved' = Append(saved, all_records)
              /\ ex_pc' = "saved"
              /\ UNCHANGED <<progress_num, ex_row, records, all_records, headers,
                             delivered, consent>>
    /\ UNCHANGED <<ex_items, ex_n_blocks, block_dfs, block_indices>>

NextRun ==
    (\/ BuildAndShuffle \/ Consent \/ Instructions \/ BlockHeader \/ RunTrial \/ Finish)
    /\ UNCHANGED <<stimVars, trialVars, flatVars, sampleVars, blockVars>>

SpecRun == InitRun /\ [][NextRun]_vars

(***************************************************************************)
(* Claims about run_experiment.                                            *)
(***************************************************************************)
\* the records made so far: of the blocks run, then of the block being run
RecordsSoFar == all_records \o records

\* the row of a record is a row of the block frame of construction index b
RecordOfBlock(rec, b) ==
    \E j \in 1..Len(block_dfs[b]) : block_dfs[b][j].item_id = rec.item_id

\* C16: the blocks are delivered in the shuffled order, no constructed block
\* twice, and on a session run to its end every constructed block once; the
\* header of the k-th delivered block shows k of B, whatever the block's
\* construction index; every record of that block has block_shown = k.
C16_ProgressInDeliveryOrder ==
    /\ Len(headers) = Len(delivered)
    /\ \A j, k \in 1..Len(delivered) : delivered[j] = delivered[k] => j = k
    /\ \A k \in 1..Len(delivered) : delivered[k] \in 1..Len(block_dfs)
    /\ \A k \in 1..Len(headers) : headers[k] = <<k, Len(block_dfs)>>
    /\ \A i \in 1..Len(RecordsSoFar) :
         \E k \in 1..Len(delivered) :
            /\ RecordOfBlock(RecordsSoFar[i], delivered[k])
            /\ RecordsSoFar[i].block_shown = k
    /\ ex_pc \in {"finish", "saved"} =>
         /\ {delivered[k] : k \in 1..Len(delivered)} = 1..Len(block_dfs)
         /\ \A b \in 1..Len(block_dfs) : \A j \in 1..Len(block_dfs[b]) :
              Cardinality({i \in 1..Len(all_records) :
                  all_records[i].item_id = block_dfs[b][j].item_id}) = 1

\* a session run to its end in which the block built second was delivered
\* first, and a row of it was rated under the header "1"
C16_Witness ==
    /\ ex_pc = "saved"
    /\ Len(block_dfs) >= 2
    /\ delivered[1] = 2
    /\ \E i \in 1..Len(saved[1]) :
         /\ RecordOfBlock(saved[1][i], 2)
         /\ saved[1][i].block_shown = 1

\* the session has ended: SystemExit, or save_records has returned
RunEnded == ex_pc \in {"exit", "saved", "saved_partial"}

\* C21: a response file is written only after consent.  Declining or escape
\* at the consent screen writes no file and exits; escape at any later point
\* saves, once, the records made so far; a session run to its end saves,
\* once, the records of all blocks; nothing is written before the session
\* ends; the instructions are on screen only after consent was given.
C21_SavedOnlyAfterConsent ==
    /\ ex_pc = "exit" => (consent = 0 /\ saved = <<>>)
    /\ ~RunEnded => saved = <<>>
    /\ ex_pc = "saved_partial" =>
         (consent = 1 /\ Len(saved) = 1 /\ saved[1] = RecordsSoFar)
    /\ ex_pc = "saved" =>
         /\ consent = 1 /\ Len(saved) = 1 /\ saved[1] = all_records
         /\ Len(saved[1]) = Len(ex_items)
    /\ ex_pc \notin {"start", "consent", "exit"} => consent = 1

(***************************************************************************)
(* Termination of build_trials_flat.  The function is sequential code      *)
(* with nothing to wait for: a step that can be taken is taken.            *)
(***************************************************************************)
SpecFlatLive == SpecFlat /\ WF_vars(NextFlat)

\* C22: build_trials_flat terminates by returning: for every pool set, every
\* n_trials >= 0 and every cap, the loop over the 8 cells reaches its end
\* and the function returns.
C22_ReachesEndAndReturns == <>(bt_pc = "returned")

=============================================================================
